---- MODULE Spec2Model ----
(***************************************************************************)
(* DiscordVault: the chunked encrypted object pipeline.                    *)
(*                                                                         *)
(* The web handlers of internal/server (handleUpload, handleDownload,      *)
(* handleDelete, handleListFiles), the command handlers of internal/bot    *)
(* (Bot.handleUpload, Bot.handleDelete, Bot.NotifyUpload), the metadata    *)
(* store of internal/database and the storage channel of the backend.      *)
(* Every request runs in its own goroutine (net/http, discordgo), so the   *)
(* handlers interleave at each call to the store and to the backend.       *)
(***************************************************************************)
EXTENDS Integers, Sequences, FiniteSets, TLC

\* ------------------------------------------------------------------ bounds
\* Failures the environment injects in one behaviour (backend, store, cipher).
MaxFaults == 1
\* Byte values are 0..NumBytes-1.
NumBytes == 3
\* Longest stream of a single-part web upload.
MaxStreamLen == 5
\* Nonces the cipher draws from.
NumNonces == 1
\* ------------------------------------------------------- program constants
\* bot.ChunkSize (7 MiB in the source), scaled to 2 bytes.
ChunkSize == 2
\* cap of the semaphore channel in Server.handleDelete (8 in the source), scaled.
DeleteWorkers == 2
\* Config.EncryptionKey, fixed at start-up.
EncryptionKey == 1

\* Request slots: each serves one request, in a goroutine of its own.
Procs == {1, 2}
Names == {"a", "b"}
\* File identities a Get or a Delete is asked for.
Ids == {1, 2}
Nonces == 0..(NumNonces - 1)
\* Identities of the callers of the command front-end.
Users == {"u1", "u2"}
\* Values of ALLOWED_USERS: unset, or one identity.
AllowLists == {{}, {"u1"}}

VARIABLES
  files,         \* table files: rows [id, name, size, hash] (+ put: the slot that wrote it)
  chunks,        \* table chunks: rows [file_id, message_id, part_num]
  nextFileId,    \* files.id AUTOINCREMENT
  messages,      \* the storage channel: message id -> [present, blob] (+ plain, put)
  notifications, \* NotifyUpload goroutines: [put, filename, size, parts, method, state]
  dbConns,       \* connections the database/sql pool of Database.Conn has opened
  AllowedUsers,  \* Config.AllowedUsers, read from ALLOWED_USERS at start-up
  loc,           \* per request slot: the handler running in it and its locals
  faultsLeft     \* failures the environment may still inject

vars == <<files, chunks, nextFileId, dbConns, AllowedUsers, messages, notifications, loc,
          faultsLeft>>
store == <<files, chunks, nextFileId>>

\* ------------------------------------------------------------------ helpers
Min(a, b) == IF a < b THEN a ELSE b

RECURSIVE Concat(_)
Concat(ss) == IF ss = <<>> THEN <<>> ELSE Head(ss) \o Concat(Tail(ss))

\* A stream of length n whose i-th byte is i mod NumBytes.
Pattern(n) == [i \in 1..n |-> i % NumBytes]

\* sha256 over the plaintext, written chunk by chunk: a running digest.
RECURSIVE HashWrite(_, _)
HashWrite(h, data) ==
  IF data = <<>> THEN h ELSE HashWrite((h * 3 + Head(data) + 1) % 7, Tail(data))

\* The chunks the read loop of handleUpload cuts a stream into.
RECURSIVE Split(_)
Split(data) ==
  IF data = <<>> THEN <<>>
  ELSE <<SubSeq(data, 1, Min(ChunkSize, Len(data)))>>
       \o Split(SubSeq(data, Min(ChunkSize, Len(data)) + 1, Len(data)))

\* ------------------------------------------------------------- the cipher
\* AES-256-GCM as the README and the callers describe it: the ciphertext
\* carries the nonce, the body under a keystream of (key, nonce, position)
\* and an authentication tag over (key, nonce, plaintext).
Tag(key, nonce, plaintext) == [k |-> key, n |-> nonce, m |-> plaintext]

Encrypt(plaintext, key, nonce) ==
  [nonce |-> nonce,
   body  |-> [i \in 1..Len(plaintext) |-> (plaintext[i] + key + nonce + i) % NumBytes],
   tag   |-> Tag(key, nonce, plaintext)]

\* The body with the keystream taken off.
Open(blob, key) ==
  [i \in 1..Len(blob.body) |->
     (blob.body[i] + NumBytes * (key + blob.nonce + i) - (key + blob.nonce + i)) % NumBytes]

\* Decrypt returns an error unless the tag authenticates the opened body.
DecryptOk(blob, key) == blob.tag = Tag(key, blob.nonce, Open(blob, key))

Decrypt(blob, key) == Open(blob, key)

NoTag == [k |-> -1, n |-> -1, m |-> <<>>]
NoBlob == [nonce |-> 0, body |-> <<>>, tag |-> NoTag]

\* A body cut short (io.ReadAll's error is dropped): the trailing bytes that
\* are read as the tag are not the tag.
Truncate(blob) ==
  [nonce |-> blob.nonce, body |-> SubSeq(blob.body, 1, Len(blob.body) - 1), tag |-> NoTag]

\* --------------------------------------------------------- fault injection
Outcomes == IF faultsLeft > 0 THEN {TRUE, FALSE} ELSE {TRUE}
Spend(ok) == faultsLeft' = IF ok THEN faultsLeft ELSE faultsLeft - 1

\* ------------------------------------------------------ the metadata store
\* PRAGMA foreign_keys = ON is executed once by Initialize, on the one
\* connection the pool holds then.
FkOn(c) == c = 1

FileRow(id) == {f \in files : f.id = id}

RECURSIVE SortByPart(_)
SortByPart(S) ==
  IF S = {} THEN <<>>
  ELSE LET m == CHOOSE c \in S : \A d \in S : c.part_num <= d.part_num
       IN  <<m>> \o SortByPart(S \ {m})

\* Mutant of GetChunks: ORDER BY part_num DESC.
GetChunks_Descending(fileID) ==
  LET cs == SortByPart({c \in chunks : c.file_id = fileID})
  IN  [i \in 1..Len(cs) |-> cs[Len(cs) + 1 - i]]

\* SELECT ... FROM chunks WHERE file_id = ? ORDER BY part_num ASC
GetChunks(fileID) == SortByPart({c \in chunks : c.file_id = fileID})

\* Mutant of SaveFileOk: files.name without UNIQUE.
SaveFileOk_NoUnique(name) == TRUE

\* INSERT INTO files: UNIQUE(name) refuses a second row of the same name.
SaveFileOk(name) == \A f \in files : f.name # name

\* INSERT INTO chunks on connection c: the foreign key is enforced only
\* where the pragma was set.
SaveChunkOk(fileID, c) == FkOn(c) => FileRow(fileID) # {}

\* DELETE FROM files WHERE id = ? on connection c: the rows left in chunks.
ChunksAfterDelete(id, c) ==
  IF FkOn(c) /\ FileRow(id) # {} THEN {k \in chunks : k.file_id # id} ELSE chunks

FileRecord(id, name, size, hash, put) ==
  [id |-> id, name |-> name, size |-> size, hash |-> hash, put |-> put]

ChunkRecord(fileID, messageID, partNum) ==
  [file_id |-> fileID, message_id |-> messageID, part_num |-> partNum]

\* ------------------------------------------------------------- the backend
\* A message of the storage channel carrying one blob as its attachment.
Message(blob, plain, put) == [present |-> TRUE, blob |-> blob, plain |-> plain, put |-> put]

Present(messageID) == messageID \in DOMAIN messages /\ messages[messageID].present

\* Session.ChannelMessageDelete: the message is gone when the call succeeds.
ChannelMessageDelete(messageID, ok) ==
  IF ok /\ Present(messageID)
  THEN [messages EXCEPT ![messageID].present = FALSE]
  ELSE messages

Notification(put, filename, size, parts, method) ==
  [put |-> put, filename |-> filename, size |-> size, parts |-> parts,
   method |-> method, state |-> "spawned"]

\* ------------------------------------------------------------ request slots
Idle ==
  [op |-> "none", pc |-> "idle",
   parts |-> <<>>, data |-> <<>>, filename |-> "", totalSize |-> 0, hasher |-> 0,
   err |-> "nil", messageIDs |-> <<>>, partNum |-> 0, fileID |-> 0, idx |-> 0,
   encrypted |-> NoBlob, size |-> 0,
   id |-> 0, chunks |-> <<>>, workers |-> <<>>, semaphore |-> 0, wg |-> 0,
   attempts |-> <<>>, results |-> <<>>, request |-> <<>>,
   status |-> 0, reply |-> "", written |-> <<>>, listed |-> {}, log |-> "", dbErr |-> "",
   user |-> "", partErr |-> "EOF"]

Set(p, r) == loc' = [loc EXCEPT ![p] = r]

\* Another request is being served while slot p makes a call.
Overlaps(p) == \E q \in Procs \ {p} : loc[q].pc \notin {"idle", "done", "killed"}

\* sql.DB runs a statement on a pooled connection; when the statements of two
\* requests overlap and none is free it opens another one, which stays in
\* the pool. The connections a statement of slot p can run on:
PoolConns(p) ==
  1..(IF Overlaps(p) /\ dbConns < Cardinality(Procs) THEN dbConns + 1 ELSE dbConns)

UseConn(c) == dbConns' = IF c > dbConns THEN c ELSE dbConns

\* Slots are interchangeable: a request takes the lowest one not yet used.
CanStart(p) == loc[p].pc = "idle" /\ \A q \in Procs : q < p => loc[q].pc # "idle"

Begin(op, pc) == [Idle EXCEPT !.op = op, !.pc = pc]

\* The handler has answered: its transient locals are dropped.
Done(l) ==
  [l EXCEPT !.pc = "done", !.parts = <<>>, !.data = <<>>, !.encrypted = NoBlob,
            !.partErr = "EOF"]

\* A part of a multipart body: its form name, file name and bytes, and the
\* error its reader returns once the bytes are read: io.EOF, or (FailingPart)
\* an error of the connection, which the reader keeps returning.
FilePart(name, data) == [form |-> "file", name |-> name, data |-> data, end |-> "EOF"]
FailingPart(name, data) == [form |-> "file", name |-> name, data |-> data, end |-> "ErrRead"]
FieldPart == [form |-> "note", name |-> "", data |-> <<>>, end |-> "EOF"]
\* mr.NextPart() returning an error other than io.EOF, and a nil part.
ErrorPart == [form |-> "error", name |-> "", data |-> <<>>, end |-> "ErrRead"]

\* Stream lengths of a web upload: no chunk, one chunk, two chunks.
StreamLens == {0, 1, ChunkSize + 1}

Requests ==
  {[multipart |-> TRUE, parts |-> <<FilePart(n, Pattern(k))>>] : n \in Names, k \in StreamLens}
  \cup {[multipart |-> TRUE, parts |-> <<FieldPart>>],
        [multipart |-> TRUE, parts |-> <<FilePart("a", Pattern(1)), FilePart("b", Pattern(1))>>],
        [multipart |-> FALSE, parts |-> <<>>]}

\* ---------------------------------------------------------------- Init
\* metadata.db and the storage channel outlive the process: at start-up the
\* store is empty or holds what earlier runs left, here one file "a" of
\* 2*ChunkSize+1 bytes written by a web upload that succeeded. ALLOWED_USERS
\* names one identity.
OldStream == Pattern(2 * ChunkSize + 1)
OldMessages ==
  [i \in 1..Len(Split(OldStream)) |->
     Message(Encrypt(Split(OldStream)[i], EncryptionKey, 0), Split(OldStream)[i], 0)]
OldFiles == {FileRecord(1, "a", Len(OldStream), HashWrite(0, OldStream), 0)}
OldChunks == {ChunkRecord(1, i, i) : i \in 1..Len(Split(OldStream))}

Init ==
  /\ \E old \in BOOLEAN :
       /\ files = IF old THEN OldFiles ELSE {}
       /\ chunks = IF old THEN OldChunks ELSE {}
       /\ nextFileId = IF old THEN 2 ELSE 1
       /\ messages = IF old THEN OldMessages ELSE <<>>
  /\ dbConns = 1
  /\ AllowedUsers = {"u1"}
  /\ notifications = {}
  /\ loc = [p \in Procs |-> Idle]
  /\ faultsLeft = MaxFaults

\* ------------------------------------------------ Server.handleUpload (Put)
\* Mutant of ReadFullN: the buffer is one byte short of ChunkSize.
ReadFullN_Short(data) == Min(ChunkSize - 1, Len(data))

\* io.ReadFull(part, buffer): n bytes and nil, io.ErrUnexpectedEOF or io.EOF.
ReadFullN(data) == Min(ChunkSize, Len(data))

ReadFullErr(data, end) ==
  IF Len(data) >= ChunkSize THEN "nil"
  ELSE IF end # "EOF" THEN end
  ELSE IF Len(data) = 0 THEN "EOF" ELSE "ErrUnexpectedEOF"

\* The part loop and the top of the chunk loop, up to the next chunk to
\* upload ("Chunk") or the end of the request ("Finish"): mr.NextPart()
\* skips the parts not named "file"; a read of 0 bytes at io.EOF leaves the
\* chunk loop. When mr.NextPart() fails with another error the part is nil
\* and part.FormName() panics: net/http recovers the panic of a handler and
\* drops the connection.
RECURSIVE NextPart(_)
NextPart(l) ==
  IF l.parts = <<>> THEN [l EXCEPT !.pc = "Finish"]
  ELSE LET part == Head(l.parts)
           m == [l EXCEPT !.parts = Tail(l.parts)] IN
       IF part.form = "error" THEN Done([m EXCEPT !.log = "panic"])
       ELSE IF part.form # "file" THEN NextPart(m)
       ELSE IF ReadFullN(part.data) = 0 /\ part.end = "EOF"
            THEN NextPart([m EXCEPT !.filename = part.name, !.partNum = 1,
                                    !.err = "EOF"])
            ELSE [m EXCEPT !.filename = part.name, !.partNum = 1,
                           !.data = part.data, !.partErr = part.end, !.pc = "Chunk"]

\* r.MultipartReader(): a request that is not multipart is refused.
handleUpload(p, r) ==
  /\ CanStart(p)
  /\ IF r.multipart
     THEN Set(p, NextPart([Begin("upload", "NextPart") EXCEPT !.parts = r.parts,
                                                             !.request = r.parts]))
     ELSE Set(p, Done([Begin("upload", "done") EXCEPT !.status = 400,
                                                      !.log = "Stream initialization failed"]))
  /\ UNCHANGED <<AllowedUsers, dbConns, store, messages, notifications, faultsLeft>>

\* Mutant of UploadFailed: the error is logged and the loop goes on.
UploadFailed_Continue(l, step) ==
  [l EXCEPT !.pc = "Sleep",
            !.log = IF step = "Encrypt" THEN "Encryption failed" ELSE "Discord rejection"]

\* crypto.Encrypt or Session.ChannelFileSend returned an error: it is logged,
\* answered 500, and the handler returns.
UploadFailed(l, step) ==
  Done([l EXCEPT !.status = 500,
                 !.log = IF step = "Encrypt" THEN "Encryption failed" ELSE "Discord rejection"])

\* Mutant of Paced: no delay, the loop's exit test follows the upload at once.
Paced_NoSleep(l) ==
  IF l.err \in {"EOF", "ErrUnexpectedEOF"} \/ (ReadFullN(l.data) = 0 /\ l.partErr = "EOF")
  THEN NextPart([l EXCEPT !.err = "EOF", !.data = <<>>])
  ELSE [l EXCEPT !.pc = "Chunk"]

\* After a chunk is uploaded the handler is in time.Sleep(800ms).
Paced(l) == [l EXCEPT !.pc = "Sleep"]

\* One turn of the chunk loop: io.ReadFull and, with n > 0, crypto.Encrypt
\* and Session.ChannelFileSend. A turn that reads nothing and gets an error
\* other than the two end-of-stream errors uploads nothing and does not
\* leave the loop.
handleUpload_Chunk(p) ==
  LET l == loc[p]
      n == ReadFullN(l.data)
      chunkData == SubSeq(l.data, 1, n)
      m == [l EXCEPT !.data = SubSeq(l.data, n + 1, Len(l.data)),
                     !.err = ReadFullErr(l.data, l.partErr),
                     !.totalSize = l.totalSize + n,
                     !.hasher = HashWrite(l.hasher, chunkData)]
  IN
  /\ l.op = "upload" /\ l.pc = "Chunk"
  /\ \E ok \in Outcomes, step \in {"Encrypt", "Send"}, nonce \in Nonces :
       /\ Spend(ok \/ n = 0)
       /\ IF n = 0
          THEN /\ Set(p, m)
               /\ UNCHANGED messages
          ELSE IF ok
          THEN /\ step = "Send"
               /\ messages' = Append(messages,
                     Message(Encrypt(chunkData, EncryptionKey, nonce), chunkData, p))
               /\ Set(p, Paced([m EXCEPT !.messageIDs = Append(l.messageIDs, Len(messages) + 1),
                                         !.partNum = l.partNum + 1]))
          ELSE /\ Set(p, UploadFailed(m, step))
               /\ UNCHANGED messages
  /\ UNCHANGED <<AllowedUsers, dbConns, store, notifications>>

\* time.Sleep(800ms), then the loop's exit test on the error of the read.
handleUpload_Sleep(p) ==
  LET l == loc[p] IN
  /\ l.op = "upload" /\ l.pc = "Sleep"
  /\ IF l.err \in {"EOF", "ErrUnexpectedEOF"} \/ (ReadFullN(l.data) = 0 /\ l.partErr = "EOF")
     THEN Set(p, NextPart([l EXCEPT !.err = "EOF", !.data = <<>>]))
     ELSE Set(p, [l EXCEPT !.pc = "Chunk"])
  /\ UNCHANGED <<AllowedUsers, dbConns, store, messages, notifications, faultsLeft>>

\* After the part loop: the empty-payload test, then DB.SaveFile. A failed
\* SaveFile is skipped over and the handler answers 200.
handleUpload_SaveFile(p) ==
  LET l == loc[p] IN
  /\ l.op = "upload" /\ l.pc = "Finish"
  /\ IF Len(l.messageIDs) = 0
     THEN /\ Set(p, Done([l EXCEPT !.status = 400, !.log = "Payload empty"]))
          /\ UNCHANGED <<store, dbConns, faultsLeft>>
     ELSE \E ok \in Outcomes, c \in PoolConns(p) :
            /\ Spend(ok) /\ UseConn(c)
            /\ IF ok /\ SaveFileOk(l.filename)
               THEN /\ files' = files \cup
                         {FileRecord(nextFileId, l.filename, l.totalSize, l.hasher, p)}
                    /\ nextFileId' = nextFileId + 1
                    /\ Set(p, [l EXCEPT !.fileID = nextFileId, !.idx = 0, !.pc = "SaveChunk"])
                    /\ UNCHANGED chunks
               ELSE /\ Set(p, Done([l EXCEPT !.status = 200, !.dbErr = "SaveFile"]))
                    /\ UNCHANGED store
  /\ UNCHANGED <<AllowedUsers, messages, notifications>>

\* One s.DB.SaveChunk(fileID, msgID, idx+1), its error dropped; after the
\* last one, go NotifyUpload and the 200 answer.
handleUpload_SaveChunk(p) ==
  LET l == loc[p] IN
  /\ l.op = "upload" /\ l.pc = "SaveChunk"
  /\ \E ok \in Outcomes, c \in PoolConns(p) :
       /\ Spend(ok) /\ UseConn(c)
       /\ LET saved == ok /\ SaveChunkOk(l.fileID, c)
              m == [l EXCEPT !.idx = l.idx + 1,
                             !.dbErr = IF saved THEN l.dbErr ELSE "SaveChunk"]
          IN
          /\ chunks' = IF saved
                       THEN chunks \cup
                              {ChunkRecord(l.fileID, l.messageIDs[l.idx + 1], l.idx + 1)}
                       ELSE chunks
          /\ IF l.idx + 1 = Len(l.messageIDs)
             THEN /\ notifications' = notifications \cup
                       {Notification(p, l.filename, l.totalSize, Len(l.messageIDs), "Web")}
                  /\ Set(p, Done([m EXCEPT !.status = 200]))
             ELSE /\ Set(p, m)
                  /\ UNCHANGED notifications
  /\ UNCHANGED <<AllowedUsers, files, nextFileId, messages>>

\* Bot.NotifyUpload: Session.ChannelMessageSend, its result dropped.
NotifyUpload(n) ==
  /\ n \in notifications /\ n.state = "spawned"
  /\ \E ok \in Outcomes :
       /\ Spend(ok)
       /\ notifications' = (notifications \ {n})
             \cup {[n EXCEPT !.state = IF ok THEN "sent" ELSE "failed"]}
  /\ UNCHANGED <<AllowedUsers, dbConns, store, messages, loc>>

\* ---------------------------------------------- Server.handleDownload (Get)
\* s.DB.GetFile(id): sql.ErrNoRows or a store error answers 404.
handleDownload(p, id) ==
  /\ CanStart(p)
  /\ \E ok \in Outcomes, c \in PoolConns(p) :
       /\ Spend(ok) /\ UseConn(c)
       /\ IF ok /\ FileRow(id) # {}
          THEN Set(p, [Begin("download", "GetChunks") EXCEPT !.id = id,
                          !.filename = (CHOOSE f \in FileRow(id) : TRUE).name])
          ELSE Set(p, Done([Begin("download", "done") EXCEPT !.id = id, !.status = 404,
                                                            !.log = "Object not found"]))
  /\ UNCHANGED <<AllowedUsers, store, messages, notifications>>

\* chunks, _ := s.DB.GetChunks(id): on an error the list is empty.
handleDownload_GetChunks(p) ==
  LET l == loc[p] IN
  /\ l.op = "download" /\ l.pc = "GetChunks"
  /\ \E ok \in Outcomes, c \in PoolConns(p) :
       /\ Spend(ok) /\ UseConn(c)
       /\ LET cs == IF ok THEN GetChunks(l.id) ELSE <<>> IN
          IF cs = <<>>
          THEN Set(p, Done([l EXCEPT !.status = 200, !.log = "delivered"]))
          ELSE Set(p, [l EXCEPT !.chunks = cs, !.idx = 0, !.pc = "Fetch"])
  /\ UNCHANGED <<AllowedUsers, store, messages, notifications>>

\* What one turn of the fetch loop can meet: the message or the attachment
\* cannot be fetched ("missing"), the body arrives cut short ("short"), or
\* the blob arrives whole ("whole"). A deleted message is always missing.
FetchResults(messageID) ==
  IF ~Present(messageID) THEN {"missing"}
  ELSE IF faultsLeft > 0 THEN {"whole", "missing", "short"} ELSE {"whole"}

\* The loop after a turn: the next chunk, or the handler returns.
NextFetch(l) ==
  IF l.idx = Len(l.chunks)
  THEN Done([l EXCEPT !.status = 200, !.log = "delivered"])
  ELSE l

\* Mutant of FetchFailed: a fetch that fails ends the Get with an error.
FetchFailed_Abort(l) == Done([l EXCEPT !.status = 500, !.log = "Fragment missing"])

\* A fetch that fails: the chunk is logged and skipped.
FetchFailed(l) == NextFetch(l)

\* Mutant of DecryptFailed: the fault is logged and the loop goes on.
DecryptFailed_Continue(l) ==
  IF l.idx = Len(l.chunks)
  THEN Done([l EXCEPT !.status = 200, !.log = "Decryption fault"])
  ELSE [l EXCEPT !.log = "Decryption fault"]

\* crypto.Decrypt fails: the handler returns, nothing more is written.
DecryptFailed(l) == Done([l EXCEPT !.status = 200, !.log = "Decryption fault"])

\* One turn of the loop over chunks: Session.ChannelMessage, http.Get,
\* io.ReadAll, crypto.Decrypt, w.Write.
handleDownload_Fetch(p) ==
  LET l == loc[p]
      chunk == l.chunks[l.idx + 1]
  IN
  /\ l.op = "download" /\ l.pc = "Fetch"
  /\ \E res \in FetchResults(chunk.message_id) :
       /\ Spend(res = "whole" \/ ~Present(chunk.message_id))
       /\ LET m == [l EXCEPT !.idx = l.idx + 1, !.results = Append(l.results, res)] IN
          IF res = "missing"
          THEN Set(p, FetchFailed(m))
          ELSE LET blob == messages[chunk.message_id].blob
                   encrypted == IF res = "short" THEN Truncate(blob) ELSE blob
               IN IF DecryptOk(encrypted, EncryptionKey)
                  THEN Set(p, NextFetch([m EXCEPT
                          !.written = l.written \o Decrypt(encrypted, EncryptionKey)]))
                  ELSE Set(p, DecryptFailed(m))
  /\ UNCHANGED <<AllowedUsers, dbConns, store, messages, notifications>>

\* -------------------------------------------- Server.handleListFiles (List)
handleListFiles(p) ==
  /\ CanStart(p)
  /\ \E ok \in Outcomes, c \in PoolConns(p) :
       /\ Spend(ok) /\ UseConn(c)
       /\ Set(p, Done([Begin("list", "done") EXCEPT
             !.status = IF ok THEN 200 ELSE 500,
             !.listed = IF ok THEN {f.id : f \in files} ELSE {}]))
  /\ UNCHANGED <<AllowedUsers, store, messages, notifications>>

\* ------------------------------------------- Server.handleDelete (Delete)
\* s.DB.GetChunks(id), then one goroutine per chunk and wg.Add(1) for each.
handleDelete(p, id) ==
  /\ CanStart(p)
  /\ \E ok \in Outcomes, c \in PoolConns(p) :
       /\ Spend(ok) /\ UseConn(c)
       /\ IF ok
          THEN LET cs == GetChunks(id) IN
               Set(p, [Begin("delete", "Wait") EXCEPT !.id = id, !.chunks = cs,
                          !.workers = [i \in 1..Len(cs) |-> "spawned"],
                          !.attempts = [i \in 1..Len(cs) |-> 0],
                          !.wg = Len(cs), !.semaphore = 0])
          ELSE Set(p, Done([Begin("delete", "done") EXCEPT !.id = id, !.status = 404,
                                                          !.log = "File not found"]))
  /\ UNCHANGED <<AllowedUsers, store, messages, notifications>>

\* semaphore <- struct{}{} : blocks while DeleteWorkers goroutines hold it.
handleDelete_Acquire(p, i) ==
  LET l == loc[p] IN
  /\ l.op = "delete" /\ l.pc = "Wait"
  /\ i \in DOMAIN l.workers /\ l.workers[i] = "spawned"
  /\ l.semaphore < DeleteWorkers
  /\ Set(p, [l EXCEPT !.workers[i] = "holding", !.semaphore = l.semaphore + 1])
  /\ UNCHANGED <<AllowedUsers, dbConns, store, messages, notifications, faultsLeft>>

\* Mutant of Release: a failed delete call is tried again.
Release_Retry(l, i, ok) ==
  [l EXCEPT !.workers[i] = IF ok THEN "done" ELSE "spawned",
            !.semaphore = l.semaphore - 1,
            !.wg = IF ok THEN l.wg - 1 ELSE l.wg,
            !.attempts[i] = l.attempts[i] + 1]

\* Mutant of Release: the worker returns without <-semaphore.
Release_KeepSlot(l, i, ok) ==
  [l EXCEPT !.workers[i] = "done", !.wg = l.wg - 1, !.attempts[i] = l.attempts[i] + 1]

\* The goroutine's locals once its delete call has returned (ok or not,
\* the result is dropped): <-semaphore, then the deferred wg.Done().
Release(l, i, ok) ==
  [l EXCEPT !.workers[i] = "done", !.semaphore = l.semaphore - 1, !.wg = l.wg - 1,
            !.attempts[i] = l.attempts[i] + 1]

\* Session.ChannelMessageDelete, its error dropped.
handleDelete_Worker(p, i) ==
  LET l == loc[p] IN
  /\ l.op = "delete" /\ l.pc = "Wait"
  /\ i \in DOMAIN l.workers /\ l.workers[i] = "holding"
  /\ \E ok \in Outcomes :
       /\ Spend(ok)
       /\ messages' = ChannelMessageDelete(l.chunks[i].message_id, ok)
       /\ Set(p, Release(l, i, ok))
  /\ UNCHANGED <<AllowedUsers, dbConns, store, notifications>>

\* Mutant of Joined: no wg.Wait() before the metadata deletion.
Joined_NoWait(l) == TRUE

\* wg.Wait() has returned when the counter is 0.
Joined(l) == l.wg = 0

\* s.DB.DeleteFile(id) after the join: its error answers 500.
handleDelete_DeleteFile(p) ==
  LET l == loc[p] IN
  /\ l.op = "delete" /\ l.pc = "Wait"
  /\ Joined(l)
  /\ \E ok \in Outcomes, c \in PoolConns(p) :
       /\ Spend(ok) /\ UseConn(c)
       /\ IF ok
          THEN /\ files' = files \ FileRow(l.id)
               /\ chunks' = ChunksAfterDelete(l.id, c)
               /\ Set(p, Done([l EXCEPT !.status = 200, !.log = "erased"]))
          ELSE /\ Set(p, Done([l EXCEPT !.status = 500, !.dbErr = "DeleteFile"]))
               /\ UNCHANGED <<files, chunks>>
  /\ UNCHANGED <<AllowedUsers, nextFileId, messages, notifications>>

\* ------------------------------------------ Bot.handleUpload (command Put)
Attachment(name, data) == [filename |-> name, size |-> Len(data), data |-> data]

\* Payload lengths of a command upload: below and above ChunkSize.
AttachmentLens == {1, ChunkSize + 1}

Attachments == {Attachment(n, Pattern(k)) : n \in Names, k \in AttachmentLens}

\* ------------------------------------------------- interactions (commands)
\* A nil pointer of discordgo.InteractionCreate.
Nil == "nil"
NoAttachment == Attachment("", <<>>)

\* An interaction event: for a command used in a guild Member is set and
\* User is nil, for one used in a direct message it is the other way round.
\* Name and the option (attachment, id) are ApplicationCommandData().
InteractionCreate(type, member, user, name, attachment, id) ==
  [Type |-> type, Member |-> member, User |-> user, Name |-> name,
   attachment |-> attachment, id |-> id]

Callers ==
  {[Member |-> u, User |-> Nil] : u \in Users} \cup {[Member |-> Nil, User |-> u] : u \in Users}

Commands ==
  {[Name |-> "upload", attachment |-> a, id |-> 0] : a \in Attachments}
  \cup {[Name |-> "delete", attachment |-> NoAttachment, id |-> k] : k \in Ids}
  \cup {[Name |-> n, attachment |-> NoAttachment, id |-> 0] : n \in {"list", "ping"}}

Interactions ==
  {InteractionCreate("ApplicationCommand", c.Member, c.User, d.Name, d.attachment, d.id) :
     c \in Callers, d \in Commands}
  \cup {InteractionCreate("MessageComponent", "u1", Nil, "", NoAttachment, 0)}

\* The identity of the caller of an interaction.
CallerOf(i) == IF i.Member # Nil THEN i.Member ELSE i.User

\* Bot.checkPermission: an empty allow-list admits everyone.
checkPermission(i) ==
  LET userID == IF i.Member # Nil THEN i.Member
                ELSE IF i.User # Nil THEN i.User ELSE ""
  IN  AllowedUsers = {} \/ userID \in AllowedUsers

\* http.Get(attachment.URL), io.ReadAll (its error dropped: the payload may
\* be cut short) and crypto.Encrypt of the whole payload.
Bot_handleUpload(p, i) ==
  LET a == i.attachment IN
  /\ CanStart(p)
  /\ \E res \in (IF faultsLeft > 0 THEN {"ok", "Get", "short", "Encrypt"} ELSE {"ok"}),
        nonce \in Nonces :
       /\ Spend(res = "ok")
       /\ LET data == IF res = "short" THEN SubSeq(a.data, 1, Len(a.data) - 1) ELSE a.data
              l == [Begin("botUpload", "Send") EXCEPT !.user = CallerOf(i),
                        !.filename = a.filename,
                        !.request = <<FilePart(a.filename, a.data)>>,
                        !.size = a.size, !.data = data,
                        !.hasher = HashWrite(0, data),
                        !.encrypted = Encrypt(data, EncryptionKey, nonce)]
          IN IF res \in {"ok", "short"}
             THEN Set(p, l)
             ELSE Set(p, Done([l EXCEPT !.reply = IF res = "Get" THEN "Failed to fetch file"
                                                 ELSE "Encryption failed"]))
  /\ UNCHANGED <<AllowedUsers, dbConns, store, messages, notifications>>

\* Mutant of ChannelFileSend: the payload is cut at ChunkSize and each piece
\* is encrypted and sent as a message of its own.
ChannelFileSend_Chunked(l, p) ==
  [k \in 1..Len(Split(l.data)) |->
     Message(Encrypt(Split(l.data)[k], EncryptionKey, l.encrypted.nonce), Split(l.data)[k], p)]

\* The messages the command Put of slot p adds to the channel: one, whose
\* file is bytes.NewReader(encrypted), the whole encrypted payload.
ChannelFileSend(l, p) == <<Message(l.encrypted, l.data, p)>>

\* b.Session.ChannelFileSend of the one encrypted payload.
Bot_handleUpload_Send(p) ==
  LET l == loc[p] IN
  /\ l.op = "botUpload" /\ l.pc = "Send"
  /\ \E ok \in Outcomes :
       /\ Spend(ok)
       /\ IF ok
          THEN /\ messages' = messages \o ChannelFileSend(l, p)
               /\ Set(p, [l EXCEPT !.messageIDs = <<Len(messages) + 1>>, !.pc = "SaveFile"])
          ELSE /\ Set(p, Done([l EXCEPT !.reply = "Could not save to storage channel"]))
               /\ UNCHANGED messages
  /\ UNCHANGED <<AllowedUsers, dbConns, store, notifications>>

\* b.DB.SaveFile(attachment.Filename, attachment.Size, hash): an error is
\* answered "Database error".
Bot_handleUpload_SaveFile(p) ==
  LET l == loc[p] IN
  /\ l.op = "botUpload" /\ l.pc = "SaveFile"
  /\ \E ok \in Outcomes, c \in PoolConns(p) :
       /\ Spend(ok) /\ UseConn(c)
       /\ IF ok /\ SaveFileOk(l.filename)
          THEN /\ files' = files \cup
                    {FileRecord(nextFileId, l.filename, l.size, l.hasher, p)}
               /\ nextFileId' = nextFileId + 1
               /\ Set(p, [l EXCEPT !.fileID = nextFileId, !.pc = "SaveChunk"])
          ELSE /\ Set(p, Done([l EXCEPT !.reply = "Database error", !.dbErr = "SaveFile"]))
               /\ UNCHANGED <<files, nextFileId>>
  /\ UNCHANGED <<AllowedUsers, chunks, messages, notifications>>

\* b.DB.SaveChunk(fileID, msg.ID, 1), its error dropped; go b.NotifyUpload;
\* the followup "Object secured".
Bot_handleUpload_SaveChunk(p) ==
  LET l == loc[p] IN
  /\ l.op = "botUpload" /\ l.pc = "SaveChunk"
  /\ \E ok \in Outcomes, c \in PoolConns(p) :
       /\ Spend(ok) /\ UseConn(c)
       /\ LET saved == ok /\ SaveChunkOk(l.fileID, c) IN
          /\ chunks' = IF saved THEN chunks \cup {ChunkRecord(l.fileID, l.messageIDs[1], 1)}
                       ELSE chunks
          /\ Set(p, Done([l EXCEPT !.reply = "Object secured",
                                   !.dbErr = IF saved THEN "" ELSE "SaveChunk"]))
  /\ notifications' = notifications \cup {Notification(p, l.filename, l.size, 1, "Bot")}
  /\ UNCHANGED <<AllowedUsers, files, nextFileId, messages>>

\* --------------------------------------- Bot.handleDelete (command Delete)
\* The "Purging..." response, then chunks, _ := b.DB.GetChunks(id).
Bot_handleDelete(p, i) ==
  LET id == i.id IN
  /\ CanStart(p)
  /\ \E ok \in Outcomes, c \in PoolConns(p) :
       /\ Spend(ok) /\ UseConn(c)
       /\ LET cs == IF ok THEN GetChunks(id) ELSE <<>> IN
          Set(p, [Begin("botDelete", "Delete") EXCEPT !.user = CallerOf(i),
                     !.id = id, !.chunks = cs, !.idx = 0,
                     !.attempts = [k \in 1..Len(cs) |-> 0]])
  /\ UNCHANGED <<AllowedUsers, store, messages, notifications>>

\* One s.ChannelMessageDelete of the loop, its error dropped.
Bot_handleDelete_Message(p) ==
  LET l == loc[p] IN
  /\ l.op = "botDelete" /\ l.pc = "Delete"
  /\ l.idx < Len(l.chunks)
  /\ \E ok \in Outcomes :
       /\ Spend(ok)
       /\ messages' = ChannelMessageDelete(l.chunks[l.idx + 1].message_id, ok)
  /\ Set(p, [l EXCEPT !.idx = l.idx + 1, !.attempts[l.idx + 1] = l.attempts[l.idx + 1] + 1])
  /\ UNCHANGED <<AllowedUsers, dbConns, store, notifications>>

\* b.DB.DeleteFile(id), its error dropped, and the followup "Purge complete".
Bot_handleDelete_DeleteFile(p) ==
  LET l == loc[p] IN
  /\ l.op = "botDelete" /\ l.pc = "Delete"
  /\ l.idx = Len(l.chunks)
  /\ \E ok \in Outcomes, c \in PoolConns(p) :
       /\ Spend(ok) /\ UseConn(c)
       /\ files' = IF ok THEN files \ FileRow(l.id) ELSE files
       /\ chunks' = IF ok THEN ChunksAfterDelete(l.id, c) ELSE chunks
       /\ Set(p, Done([l EXCEPT !.reply = "Purge complete",
                                !.dbErr = IF ok THEN "" ELSE "DeleteFile"]))
  /\ UNCHANGED <<AllowedUsers, nextFileId, messages, notifications>>

\* ------------------------------------------- Bot.handleList (command List)
\* files, _ := b.DB.ListFiles() and the response listing them.
Bot_handleList(p, i) ==
  /\ CanStart(p)
  /\ \E ok \in Outcomes, c \in PoolConns(p) :
       /\ Spend(ok) /\ UseConn(c)
       /\ Set(p, Done([Begin("botList", "done") EXCEPT !.user = CallerOf(i),
             !.reply = "Vault Assets",
             !.listed = IF ok THEN {f.id : f \in files} ELSE {}]))
  /\ UNCHANGED <<AllowedUsers, store, messages, notifications>>

\* ------------------------------------------------- Bot.interactionCreate
\* A panic in a handler goroutine of the session is not recovered: the Go
\* runtime ends the process, so every handler and notification goroutine
\* stops where it is and no request is served any more.
Panic(p, l) ==
  /\ loc' = [q \in Procs |->
               IF q = p THEN Done([l EXCEPT !.log = "panic"])
               ELSE IF loc[q].pc = "done" THEN loc[q]
               ELSE [loc[q] EXCEPT !.pc = "killed"]]
  /\ notifications' =
       {IF n.state = "spawned" THEN [n EXCEPT !.state = "killed"] ELSE n : n \in notifications}

\* The handler of every interaction event: the type test, i.Member.User
\* (a nil dereference when the command comes from a direct message), the
\* allow-list test with its "Access Denied" response, and the dispatch on
\* the command name.
interactionCreate(p, i) ==
  /\ CanStart(p)
  /\ IF i.Type # "ApplicationCommand"
     THEN /\ Set(p, Done(Begin("interaction", "done")))
          /\ UNCHANGED <<AllowedUsers, dbConns, store, messages, notifications, faultsLeft>>
     ELSE IF i.Member = Nil
     THEN /\ Panic(p, [Begin("interaction", "done") EXCEPT !.user = CallerOf(i)])
          /\ UNCHANGED <<AllowedUsers, dbConns, store, messages, faultsLeft>>
     ELSE IF ~checkPermission(i)
     THEN /\ Set(p, Done([Begin("interaction", "done") EXCEPT !.user = CallerOf(i),
                                                             !.reply = "Access Denied"]))
          /\ UNCHANGED <<AllowedUsers, dbConns, store, messages, notifications, faultsLeft>>
     ELSE CASE i.Name = "list" -> Bot_handleList(p, i)
            [] i.Name = "upload" -> Bot_handleUpload(p, i)
            [] i.Name = "delete" -> Bot_handleDelete(p, i)
            [] OTHER ->
                 /\ Set(p, Done([Begin("botPing", "done") EXCEPT !.user = CallerOf(i),
                                                                !.reply = "Pong!"]))
                 /\ UNCHANGED <<AllowedUsers, dbConns, store, messages, notifications,
                                faultsLeft>>

\* ---------------------------------------------------------------- Next
Next ==
  \/ \E p \in Procs, r \in Requests : handleUpload(p, r)
  \/ \E p \in Procs : handleUpload_Chunk(p)
  \/ \E p \in Procs : handleUpload_Sleep(p)
  \/ \E p \in Procs : handleUpload_SaveFile(p)
  \/ \E p \in Procs : handleUpload_SaveChunk(p)
  \/ \E n \in notifications : NotifyUpload(n)
  \/ \E p \in Procs, id \in Ids : handleDownload(p, id)
  \/ \E p \in Procs : handleDownload_GetChunks(p)
  \/ \E p \in Procs : handleDownload_Fetch(p)
  \/ \E p \in Procs : handleListFiles(p)
  \/ \E p \in Procs, id \in Ids : handleDelete(p, id)
  \/ \E p \in Procs, i \in 1..(2 * ChunkSize + 1) : handleDelete_Acquire(p, i)
  \/ \E p \in Procs, i \in 1..(2 * ChunkSize + 1) : handleDelete_Worker(p, i)
  \/ \E p \in Procs : handleDelete_DeleteFile(p)
  \/ \E p \in Procs, i \in Interactions : interactionCreate(p, i)
  \/ \E p \in Procs : Bot_handleUpload_Send(p)
  \/ \E p \in Procs : Bot_handleUpload_SaveFile(p)
  \/ \E p \in Procs : Bot_handleUpload_SaveChunk(p)
  \/ \E p \in Procs : Bot_handleDelete_Message(p)
  \/ \E p \in Procs : Bot_handleDelete_DeleteFile(p)

Spec == Init /\ [][Next]_vars

\* ------------------------------------------------------- web Deletes
\* Web Deletes alone, of the stored three-chunk file and of an unknown
\* identity. The Go scheduler runs every runnable goroutine and a call of
\* the session returns (its HTTP client has a timeout): weak fairness on the
\* steps of the workers and of the handler.
OldChunkIndexes == 1..Len(Split(OldStream))

InitDelete ==
  /\ files = OldFiles /\ chunks = OldChunks /\ nextFileId = 2
  /\ messages = OldMessages
  /\ dbConns = 1
  /\ AllowedUsers = {}
  /\ notifications = {}
  /\ loc = [p \in Procs |-> Idle]
  /\ faultsLeft = MaxFaults

NextDelete ==
  \/ \E p \in Procs, id \in Ids : handleDelete(p, id)
  \/ \E p \in Procs, i \in OldChunkIndexes : handleDelete_Acquire(p, i)
  \/ \E p \in Procs, i \in OldChunkIndexes : handleDelete_Worker(p, i)
  \/ \E p \in Procs : handleDelete_DeleteFile(p)

FairDelete ==
  /\ \A p \in Procs, i \in OldChunkIndexes :
       WF_vars(handleDelete_Acquire(p, i)) /\ WF_vars(handleDelete_Worker(p, i))
  /\ \A p \in Procs : WF_vars(handleDelete_DeleteFile(p))

SpecDelete == InitDelete /\ [][NextDelete]_vars /\ FairDelete

\* ------------------------------------------------ the command front-end
\* The commands alone, under either value of ALLOWED_USERS.
InitCommands ==
  /\ \E old \in BOOLEAN :
       /\ files = IF old THEN OldFiles ELSE {}
       /\ chunks = IF old THEN OldChunks ELSE {}
       /\ nextFileId = IF old THEN 2 ELSE 1
       /\ messages = IF old THEN OldMessages ELSE <<>>
  /\ dbConns = 1
  /\ AllowedUsers \in AllowLists
  /\ notifications = {}
  /\ loc = [p \in Procs |-> Idle]
  /\ faultsLeft = MaxFaults

NextCommands ==
  \/ \E p \in Procs, i \in Interactions : interactionCreate(p, i)
  \/ \E p \in Procs : Bot_handleUpload_Send(p)
  \/ \E p \in Procs : Bot_handleUpload_SaveFile(p)
  \/ \E p \in Procs : Bot_handleUpload_SaveChunk(p)
  \/ \E p \in Procs : Bot_handleDelete_Message(p)
  \/ \E p \in Procs : Bot_handleDelete_DeleteFile(p)
  \/ \E n \in notifications : NotifyUpload(n)

SpecCommands == InitCommands /\ [][NextCommands]_vars

\* ------------------------------------------------------------ web Puts
\* One web Put in slot 1 of an empty store: a single file part of every
\* length up to MaxStreamLen, a request of several parts, a request that is
\* not multipart, and streams whose read fails with an error of the
\* connection: after k bytes of a part, or in mr.NextPart() between parts.
PutRequests ==
  {[multipart |-> TRUE, parts |-> <<FilePart("a", Pattern(k))>>] : k \in 0..MaxStreamLen}
  \cup {[multipart |-> TRUE, parts |-> <<FailingPart("a", Pattern(k))>>] : k \in 0..ChunkSize}
  \cup {[multipart |-> TRUE, parts |-> <<FilePart("a", Pattern(1)), ErrorPart>>],
        [multipart |-> TRUE,
         parts |-> <<FieldPart, FilePart("a", Pattern(ChunkSize + 1)), FilePart("b", Pattern(1))>>],
        [multipart |-> FALSE, parts |-> <<>>]}

InitPut ==
  /\ files = {} /\ chunks = {} /\ nextFileId = 1
  /\ messages = <<>>
  /\ dbConns = 1
  /\ AllowedUsers = {}
  /\ notifications = {}
  /\ loc = [p \in Procs |-> Idle]
  /\ faultsLeft = MaxFaults

NextPut ==
  \/ \E r \in PutRequests : handleUpload(1, r)
  \/ \E p \in Procs : handleUpload_Chunk(p)
  \/ \E p \in Procs : handleUpload_Sleep(p)
  \/ \E p \in Procs : handleUpload_SaveFile(p)
  \/ \E p \in Procs : handleUpload_SaveChunk(p)
  \/ \E n \in notifications : NotifyUpload(n)

SpecPut == InitPut /\ [][NextPut]_vars

\* ------------------------------------------------- Put followed by Get
\* One web Put in slot 1 and, once it has answered, one Get in slot 2 of
\* the file it saved; no call fails (faultsLeft = 0) and the store starts
\* empty.
RoundTripLens == {0, 1, ChunkSize - 1, ChunkSize, ChunkSize + 1, 5 * ChunkSize + 3}

RoundTripRequests ==
  {[multipart |-> TRUE, parts |-> <<FilePart(n, Pattern(k))>>] :
     n \in Names, k \in RoundTripLens}

InitRoundTrip ==
  /\ files = {} /\ chunks = {} /\ nextFileId = 1
  /\ messages = <<>>
  /\ dbConns = 1
  /\ AllowedUsers = {}
  /\ notifications = {}
  /\ loc = [p \in Procs |-> Idle]
  /\ faultsLeft = 0

NextRoundTrip ==
  \/ \E r \in RoundTripRequests : handleUpload(1, r)
  \/ \E p \in Procs : handleUpload_Chunk(p)
  \/ \E p \in Procs : handleUpload_Sleep(p)
  \/ \E p \in Procs : handleUpload_SaveFile(p)
  \/ \E p \in Procs : handleUpload_SaveChunk(p)
  \/ \E n \in notifications : NotifyUpload(n)
  \/ loc[1].pc = "done" /\ handleDownload(2, loc[1].fileID)
  \/ \E p \in Procs : handleDownload_GetChunks(p)
  \/ \E p \in Procs : handleDownload_Fetch(p)

SpecRoundTrip == InitRoundTrip /\ [][NextRoundTrip]_vars

\* ================================================================ claims
Range(seq) == {seq[i] : i \in DOMAIN seq}

\* The chunks a request's file parts are cut into, in upload order.
RECURSIVE ExpectedChunks(_)
ExpectedChunks(parts) ==
  IF parts = <<>> THEN <<>>
  ELSE (IF Head(parts).form = "file" THEN Split(Head(parts).data) ELSE <<>>)
       \o ExpectedChunks(Tail(parts))

\* The messages a slot's request uploaded, the file rows it wrote and the
\* chunk records that point at its messages.
MessagesOf(p) == {m \in DOMAIN messages : messages[m].put = p}
FilesOf(p) == {f \in files : f.put = p}
RecordsOf(p) == {c \in chunks : c.message_id \in MessagesOf(p)}

UploadFailures == {"Encryption failed", "Discord rejection"}

\* Every chunk of the request of slot p has been encrypted and uploaded.
AllUploaded(p) ==
  /\ Len(loc[p].messageIDs) = Len(ExpectedChunks(loc[p].request))
  /\ \A i \in DOMAIN loc[p].messageIDs :
       /\ loc[p].messageIDs[i] \in MessagesOf(p)
       /\ messages[loc[p].messageIDs[i]].plain = ExpectedChunks(loc[p].request)[i]

C1_NoRowsBeforeAllUploaded ==
  \A p \in Procs : loc[p].op = "upload" =>
    /\ (FilesOf(p) # {} \/ RecordsOf(p) # {}) => AllUploaded(p)
    /\ loc[p].log \in UploadFailures =>
         /\ loc[p].pc = "done" /\ loc[p].status = 500
         /\ FilesOf(p) = {} /\ RecordsOf(p) = {}
         /\ Len(loc[p].messageIDs) < Len(ExpectedChunks(loc[p].request))
         /\ MessagesOf(p) = Range(loc[p].messageIDs)
         /\ \A i \in DOMAIN loc[p].messageIDs :
              /\ messages[loc[p].messageIDs[i]].present
              /\ messages[loc[p].messageIDs[i]].plain = ExpectedChunks(loc[p].request)[i]

C1_StepsBeforeSaveKeepStore ==
  \A p \in Procs :
    (loc'[p] # loc[p] /\ loc'[p].op = "upload" /\ loc[p].pc \notin {"Finish", "SaveChunk"})
      => /\ UNCHANGED store
         /\ loc'[p].log \in UploadFailures => UNCHANGED messages

\* C1: a web Put writes no file row and no chunk record before every chunk
\* of its stream has been encrypted and uploaded; when an encrypt or upload
\* step fails the Put stops at that step with the store as it was, and the
\* chunks uploaded before the failure stay in the backend.
C1_PutAbortsWithoutMetadata ==
  []C1_NoRowsBeforeAllUploaded /\ [][C1_StepsBeforeSaveKeepStore]_vars

\* C1 witness: a two-chunk Put whose second upload failed, its first chunk
\* still in the backend.
C1_Witness ==
  \E p \in Procs :
    /\ loc[p].op = "upload" /\ loc[p].log = "Discord rejection"
    /\ Len(loc[p].messageIDs) = 1 /\ Len(ExpectedChunks(loc[p].request)) = 2
    /\ messages[loc[p].messageIDs[1]].present

\* The chunk records of a file row.
RecordsFor(f) == {c \in chunks : c.file_id = f.id}

\* C2: in every reachable state every file row of the store has its complete
\* chunk record set, one record (partNum 1..n) for each of the n chunks its
\* Put uploaded.
C2_FileNeverWithoutItsChunks ==
  \A f \in files :
    /\ {c.part_num : c \in RecordsFor(f)} = 1..Cardinality(MessagesOf(f.put))
    /\ {c.message_id : c \in RecordsFor(f)} = MessagesOf(f.put)

\* The byte stream a request carries in its parts.
StreamOf(parts) == Concat([i \in DOMAIN parts |-> parts[i].data])

GetAfterPutDone == loc[2].op = "download" /\ loc[2].pc = "done"

Deletes == {"delete", "botDelete"}

\* C4: a step of a Delete (web or command) that issues DeleteFile is taken
\* only when the backend delete call of every chunk record it listed has
\* returned, whatever the interleaving of its workers and of other Deletes.
C4_DeleteFileAfterAllDeletesReturned ==
  [][\A p \in Procs :
       (loc[p].op \in Deletes /\ loc[p].pc # "done" /\ loc'[p].pc = "done")
         => /\ \A i \in DOMAIN loc[p].chunks : loc[p].attempts[i] >= 1
            /\ loc[p].op = "delete" =>
                 /\ loc[p].semaphore = 0
                 /\ \A i \in DOMAIN loc[p].workers : loc[p].workers[i] = "done"]_vars

\* C4 witness: a web Delete of the three-chunk file (more chunks than
\* DeleteWorkers) has issued DeleteFile while a second Delete of the same
\* file still has a delete call in flight.
C4_Witness ==
  \E p, q \in Procs :
    /\ loc[p].op = "delete" /\ loc[p].pc = "done" /\ loc[p].status = 200
    /\ Len(loc[p].chunks) = 3 /\ DeleteWorkers < 3
    /\ loc[q].op = "delete" /\ loc[q].pc = "Wait" /\ Len(loc[q].chunks) = 3
    /\ \E i \in DOMAIN loc[q].workers : loc[q].workers[i] = "holding"

\* The Put or Delete in slot p told its caller it succeeded.
ReportsSuccess(p) ==
  \/ loc[p].op \in {"delete", "upload"} /\ loc[p].status = 200
  \/ loc[p].op = "botDelete" /\ loc[p].reply = "Purge complete"
  \/ loc[p].op = "botUpload" /\ loc[p].reply = "Object secured"

\* The Delete in slot p has listed its chunk records and has answered.
DeleteAnswered(p) ==
  loc[p].op \in Deletes /\ loc[p].pc = "done" /\ loc[p].log # "File not found"

\* C5: a Delete makes exactly one backend delete attempt per chunk record,
\* issues the metadata deletion whatever attempts failed, and reports
\* success when the metadata deletion succeeded.
C5_OneAttemptEachThenMetadataDelete ==
  /\ [](\A p \in Procs : loc[p].op \in Deletes =>
          /\ \A i \in DOMAIN loc[p].attempts : loc[p].attempts[i] <= 1
          /\ DeleteAnswered(p) =>
               /\ \A i \in DOMAIN loc[p].chunks : loc[p].attempts[i] = 1
               /\ loc[p].dbErr = "" => ReportsSuccess(p))
  /\ [][\A p \in Procs :
          (loc[p].op \in Deletes /\ loc[p].pc # "done" /\ loc'[p].pc = "done")
            => \/ loc'[p].dbErr = "DeleteFile" /\ files' = files
               \/ loc'[p].dbErr = "" /\ files' = files \ FileRow(loc[p].id)]_vars

\* C5 witness: a Delete of the three-chunk file has reported success although
\* one of its remote deletions failed and left the blob in the backend.
C5_Witness ==
  \E p \in Procs :
    /\ DeleteAnswered(p) /\ ReportsSuccess(p) /\ loc[p].dbErr = ""
    /\ Len(loc[p].chunks) = 3
    /\ \E i \in DOMAIN loc[p].chunks : Present(loc[p].chunks[i].message_id)

\* C6: when the metadata deletion of a Delete fails, the Delete reports
\* failure to its caller (web endpoint and command front-end alike), and the
\* failing step removes neither the file row nor a chunk record.
C6_FailedMetadataDeleteIsReported ==
  /\ [](\A p \in Procs :
          (DeleteAnswered(p) /\ loc[p].dbErr = "DeleteFile") => ~ReportsSuccess(p))
  /\ [][\A p \in Procs :
          (loc[p].op \in Deletes /\ loc[p].pc # "done" /\ loc'[p].dbErr = "DeleteFile")
            => UNCHANGED <<files, chunks>>]_vars

\* C7: after a Delete has reported success (its metadata deletion having
\* succeeded), GetFile of its fileId finds no row and ListChunks of its
\* fileId is empty.
C7_DeletedFileLeavesNoRows ==
  \A p \in Procs :
    (DeleteAnswered(p) /\ ReportsSuccess(p) /\ loc[p].dbErr = "")
      => FileRow(loc[p].id) = {} /\ GetChunks(loc[p].id) = <<>>

\* The plaintext that was uploaded as the blob of a chunk record.
PlainOf(chunk) == messages[chunk.message_id].plain

\* The plaintexts, in list order, of the first n chunks of a Get whose fetch
\* did not fail.
FetchedPlain(l, n) ==
  Concat([i \in 1..n |-> IF l.results[i] = "missing" THEN <<>> ELSE PlainOf(l.chunks[i])])

Ascending(cs) == \A i, j \in DOMAIN cs : i < j => cs[i].part_num < cs[j].part_num

\* C8: a Get skips each chunk whose fetch fails and goes on: unless a
\* decryption fails, its output is the plaintexts, in ascending partNum, of
\* exactly the chunks that were fetched, and it ends with 200.
C8_GetSkipsChunksItCannotFetch ==
  \A p \in Procs :
    (loc[p].op = "download" /\ loc[p].pc \in {"Fetch", "done"}
       /\ loc[p].log \notin {"Object not found", "Decryption fault"})
      => /\ Ascending(loc[p].chunks)
         /\ loc[p].written = FetchedPlain(loc[p], Len(loc[p].results))
         /\ loc[p].pc = "done" =>
              /\ loc[p].status = 200 /\ loc[p].log = "delivered"
              /\ Len(loc[p].results) = Len(loc[p].chunks)

\* C8 witness: a Get of the three-chunk file whose second fetch failed has
\* delivered the plaintext of chunks 1 and 3.
C8_Witness ==
  \E p \in Procs :
    /\ loc[p].op = "download" /\ loc[p].pc = "done" /\ loc[p].status = 200
    /\ loc[p].results = <<"whole", "missing", "whole">>
    /\ loc[p].written = PlainOf(loc[p].chunks[1]) \o PlainOf(loc[p].chunks[3])
    /\ loc[p].written # <<>>

\* C9: when the decryption of chunk k fails the Get ends there: what it has
\* written is the plaintext of the fetched chunks before k, and neither
\* chunk k nor a later one is written or fetched.
C9_DecryptFailureEndsGet ==
  \A p \in Procs : loc[p].op = "download" =>
    \A k \in DOMAIN loc[p].results : loc[p].results[k] = "short" =>
      /\ loc[p].pc = "done" /\ loc[p].log = "Decryption fault"
      /\ Len(loc[p].results) = k /\ loc[p].idx = k
      /\ loc[p].written = FetchedPlain(loc[p], k - 1)

\* C9 witness: the second chunk of the three-chunk file failed to decrypt
\* after the first had been written.
C9_Witness ==
  \E p \in Procs :
    /\ loc[p].op = "download" /\ loc[p].log = "Decryption fault"
    /\ Len(loc[p].chunks) = 3 /\ loc[p].results = <<"whole", "short">>
    /\ loc[p].written = PlainOf(loc[p].chunks[1]) /\ loc[p].written # <<>>

\* C10: a Put (web or command) whose SaveFile or SaveChunk returned an error
\* reports failure to its caller, never success.
C10_FailedMetadataWriteIsReported ==
  \A p \in Procs :
    (loc[p].op \in {"upload", "botUpload"} /\ loc[p].pc = "done" /\ loc[p].dbErr # "")
      => ~ReportsSuccess(p)

\* The identity was never given to a file: files.id is AUTOINCREMENT, so the
\* identities in use so far are those below nextFileId.
NeverStored(id) == id >= nextFileId

Lookups == {"download", "delete", "botDelete"}

\* The Get or Delete in slot p told its caller that the file does not exist.
ReportsNotFound(p) == loc[p].op \in {"download", "delete"} /\ loc[p].status = 404

\* C11: a Get or a Delete of an identity for which no file exists reports
\* not-found to its caller (when no store call of its own failed), makes no
\* backend call and leaves the store as it was.
C11_UnknownIdentityIsNotFound ==
  /\ [](\A p \in Procs :
          (loc[p].op \in Lookups /\ loc[p].pc = "done" /\ NeverStored(loc[p].id)
             /\ loc[p].dbErr = "")
            => /\ ReportsNotFound(p)
               /\ loc[p].results = <<>> /\ loc[p].attempts = <<>>)
  /\ [][\A p \in Procs :
          (loc'[p] # loc[p] /\ loc'[p].op \in Lookups /\ NeverStored(loc'[p].id))
            => UNCHANGED <<files, chunks, messages>>]_vars

\* The commands that perform an operation, and every command handler.
BotOps == {"botUpload", "botDelete", "botList", "botPing"}

Permitted(user) == AllowedUsers = {} \/ user \in AllowedUsers

\* C12: a command performs its operation only if the allow-list is empty or
\* holds the caller's identity; a command of any other caller is answered
\* with a denial and changes neither the store nor the backend.
C12_CommandsGatedByAllowList ==
  /\ [](\A p \in Procs : loc[p].op \in BotOps => Permitted(loc[p].user))
  /\ [][\A p \in Procs :
          (loc[p].pc = "idle" /\ loc'[p].user # "" /\ ~Permitted(loc'[p].user))
            => /\ loc'[p].pc = "done" /\ loc'[p].reply = "Access Denied"
               /\ UNCHANGED <<files, chunks, messages>>]_vars

\* Every metadata write of the Put in slot p has succeeded: its file row and
\* one chunk record for each chunk it uploaded.
MetadataPersisted(p) ==
  /\ loc[p].fileID # 0 /\ loc[p].dbErr = ""
  /\ loc[p].op = "upload" => loc[p].idx = Len(loc[p].messageIDs)

\* A step in which a notification goroutine ends (sent or failed).
NotificationEnds ==
  \E n \in notifications' : n \notin notifications /\ n.state \in {"sent", "failed"}

\* C13: the completion notification of a Put is sent only after the Put's
\* metadata has been persisted; the Put does not wait for it, and whether it
\* is sent, fails or never ends changes neither the Put's result nor the
\* store.
C13_NotificationAfterPersistAndDetached ==
  /\ [](\A n \in notifications : MetadataPersisted(n.put) /\ loc[n.put].pc = "done")
  /\ [][NotificationEnds => UNCHANGED <<loc, files, chunks, nextFileId, messages>>]_vars

\* C14: in every reachable state the partNum values of the chunk records of
\* every file are exactly 1..n, without gap or duplicate, n being the number
\* of chunks its Put uploaded.
C14_PartNumsContiguous ==
  \A f \in files :
    LET n == Cardinality(MessagesOf(f.put)) IN
    /\ {c.part_num : c \in RecordsFor(f)} = 1..n
    /\ Cardinality(RecordsFor(f)) = n

\* The delete calls of the Delete in slot p that are in flight.
InFlight(p) == {i \in DOMAIN loc[p].workers : loc[p].workers[i] = "holding"}

\* C15: at most DeleteWorkers (8 in the source) backend delete calls of one
\* Delete are in flight at any moment, and the delete call of every chunk
\* is eventually issued and returns: no worker waits on the pool for ever.
C15_BoundedPoolAndEveryDeleteReturns ==
  /\ [](\A p \in Procs : loc[p].op = "delete" =>
          /\ Cardinality(InFlight(p)) <= DeleteWorkers
          /\ loc[p].semaphore = Cardinality(InFlight(p)))
  /\ \A p \in Procs, i \in OldChunkIndexes :
       (loc[p].op = "delete" /\ i \in DOMAIN loc[p].workers)
         ~> (/\ i \in DOMAIN loc[p].workers
             /\ loc[p].workers[i] = "done" /\ loc[p].attempts[i] = 1)

\* C15 witness: the pool of a Delete of the three-chunk file is full and its
\* third worker waits for a slot.
C15_Witness ==
  \E p \in Procs :
    /\ loc[p].op = "delete" /\ Len(loc[p].chunks) = 3
    /\ Cardinality(InFlight(p)) = DeleteWorkers
    /\ \E i \in DOMAIN loc[p].workers : loc[p].workers[i] = "spawned"

Puts == {"upload", "botUpload"}

\* The remote identifiers of a Put are in the order of its uploads, the k-th
\* holds the k-th chunk of the stream, and a chunk record of the Put gives
\* the k-th identifier the partNum k; a Get holds its chunks in ascending
\* partNum and has handled exactly the first idx of them.
C16_InOrder ==
  \A p \in Procs :
    /\ loc[p].op \in Puts =>
         /\ \A j, k \in DOMAIN loc[p].messageIDs :
              j < k => loc[p].messageIDs[j] < loc[p].messageIDs[k]
         /\ MessagesOf(p) = Range(loc[p].messageIDs)
         /\ loc[p].op = "upload" =>
              \A k \in DOMAIN loc[p].messageIDs :
                messages[loc[p].messageIDs[k]].plain = ExpectedChunks(loc[p].request)[k]
         /\ \A c \in RecordsOf(p) :
              /\ c.file_id = loc[p].fileID
              /\ c.part_num \in DOMAIN loc[p].messageIDs
              /\ loc[p].messageIDs[c.part_num] = c.message_id
    /\ loc[p].op = "download" =>
         /\ Ascending(loc[p].chunks)
         /\ Len(loc[p].results) = loc[p].idx

\* A step uploads at most one chunk of a Put, and a step of a Get handles
\* the one chunk that follows those it has handled: it fetches it and writes
\* its plaintext or skips it.
C16_OneAtATime ==
  \A p \in Procs :
    /\ (loc[p].op \in Puts /\ loc'[p].op \in Puts) =>
         \/ loc'[p].messageIDs = loc[p].messageIDs
         \/ /\ loc'[p].messageIDs = Append(loc[p].messageIDs, Len(messages) + 1)
            /\ Len(messages') = Len(messages) + 1
    /\ (loc[p].op = "download" /\ loc'[p].op = "download") =>
         \/ /\ loc'[p].idx = loc[p].idx
            /\ loc'[p].written = loc[p].written
         \/ /\ loc[p].pc = "Fetch"
            /\ loc'[p].idx = loc[p].idx + 1
            /\ loc'[p].chunks = loc[p].chunks
            /\ loc'[p].results \in {Append(loc[p].results, r) : r \in {"whole", "short", "missing"}}
            /\ \/ loc'[p].written = loc[p].written
               \/ loc'[p].written = loc[p].written \o PlainOf(loc[p].chunks[loc'[p].idx])

\* C16: within a Put the chunks are uploaded one at a time in stream order
\* and the identifier of the k-th upload is recorded with partNum k; within a
\* Get the chunks are fetched one at a time in ascending partNum, chunk k+1
\* not before chunk k has been written or skipped.
C16_UploadAndFetchOrder == []C16_InOrder /\ [][C16_OneAtATime]_vars

\* C16 witness: a Get has fetched, in order, both chunks that a two-chunk web
\* Put recorded with partNum 1 and 2.
C16_Witness ==
  \E p, q \in Procs :
    /\ loc[p].op = "upload" /\ loc[p].pc = "done" /\ Len(loc[p].messageIDs) = 2
    /\ loc[q].op = "download" /\ loc[q].id = loc[p].fileID
    /\ loc[q].results = <<"whole", "whole">>
    /\ [k \in 1..2 |-> loc[q].chunks[k].message_id] = loc[p].messageIDs
    /\ loc[q].written = StreamOf(loc[p].request)

CeilDiv(N, C) == (N + C - 1) \div C

\* The chunk lengths the claim gives a stream of N bytes cut at C.
ChunkLens(N, C) ==
  [k \in 1..CeilDiv(N, C) |-> IF k < CeilDiv(N, C) \/ N % C = 0 THEN C ELSE N % C]

\* The same for the streams of a request's file parts, one after the other.
RECURSIVE RequestChunkLens(_)
RequestChunkLens(parts) ==
  IF parts = <<>> THEN <<>>
  ELSE (IF Head(parts).form = "file" THEN ChunkLens(Len(Head(parts).data), ChunkSize)
        ELSE <<>>)
       \o RequestChunkLens(Tail(parts))

\* The plaintext lengths of the chunks slot p uploaded, in upload order.
UploadedLens(p) ==
  [k \in DOMAIN loc[p].messageIDs |-> Len(messages[loc[p].messageIDs[k]].plain)]

IsPrefix(s, t) == Len(s) <= Len(t) /\ s = SubSeq(t, 1, Len(s))

\* Every stream of the request ends with io.EOF.
StreamsEnd(parts) == \A k \in DOMAIN parts : parts[k].end = "EOF"

\* The Put in slot p has left its part loop without an upload error.
LoopEnded(p) ==
  \/ loc[p].pc \in {"Finish", "SaveChunk"}
  \/ loc[p].pc = "done" /\ (loc[p].status = 200 \/ loc[p].log = "Payload empty")

\* C17: the chunk loop cuts a stream of N bytes into ceil(N/C) chunks (none
\* when N = 0), each of C bytes except the last, which has N mod C bytes, or
\* C when N is a nonzero multiple of C; no chunk is empty. While the loop
\* runs the chunks uploaded are the first of these.
C17_ChunkCountAndLengths ==
  \A p \in Procs :
    (loc[p].op = "upload" /\ StreamsEnd(loc[p].request)) =>
      /\ \A k \in DOMAIN loc[p].messageIDs : UploadedLens(p)[k] > 0
      /\ IsPrefix(UploadedLens(p), RequestChunkLens(loc[p].request))
      /\ LoopEnded(p) => UploadedLens(p) = RequestChunkLens(loc[p].request)

\* C17 witness: a stream of 2*ChunkSize bytes was cut into two chunks of
\* ChunkSize bytes and the Put answered 200.
C17_Witness ==
  \E p \in Procs :
    /\ loc[p].op = "upload" /\ loc[p].pc = "done" /\ loc[p].status = 200
    /\ loc[p].request = <<FilePart("a", Pattern(2 * ChunkSize))>>
    /\ UploadedLens(p) = <<ChunkSize, ChunkSize>>

\* The plaintext bytes of the chunks among the first n messages of the
\* channel that the request put encrypted and uploaded.
RECURSIVE PlainBytes(_, _)
PlainBytes(put, n) ==
  IF n = 0 THEN 0
  ELSE (IF messages[n].put = put THEN Len(messages[n].plain) ELSE 0) + PlainBytes(put, n - 1)

\* C18: the size recorded for a file, by the web Put or by the command Put,
\* is the sum of the plaintext lengths of the chunks encrypted and uploaded
\* for it.
C18_SizeIsSumOfChunkLengths ==
  \A f \in files : f.size = PlainBytes(f.put, Len(messages))

\* A step of the web Put in slot p.
PutStep(p) ==
  \/ handleUpload_Chunk(p)
  \/ handleUpload_Sleep(p)
  \/ handleUpload_SaveFile(p)
  \/ handleUpload_SaveChunk(p)

\* C19: every Put terminates, also on a stream whose read fails with an
\* error other than end-of-stream: a Put that has not returned always has a
\* step that advances it (uploads a chunk, leaves a loop, writes a row or
\* returns), it is never left with only a turn of the read loop that changes
\* nothing and repeats.
C19_EveryPutTerminates ==
  \A p \in Procs :
    (loc[p].op = "upload" /\ loc[p].pc # "done") => ENABLED <<PutStep(p)>>_vars

\* A step of the Put in slot p that uploads a chunk does so from the top of
\* the chunk loop and leaves the Put in its delay; the Put comes back to the
\* top of the chunk loop only from that delay, or before its first upload.
C20_Step ==
  \A p \in Procs :
    (loc[p].op = "upload" /\ loc'[p].op = "upload") =>
      /\ loc'[p].messageIDs # loc[p].messageIDs =>
           loc[p].pc = "Chunk" /\ loc'[p].pc = "Sleep"
      /\ (loc'[p].pc = "Chunk" /\ loc[p].pc # "Chunk") =>
           loc[p].pc = "Sleep" \/ loc[p].messageIDs = <<>>

\* C20: within a Put a pacing delay lies between every two successive chunk
\* uploads: chunk k+1 is uploaded only after the delay that follows the
\* upload of chunk k, whatever the lengths of the chunks.
C20_DelayBetweenUploads ==
  /\ [](\A p \in Procs : (loc[p].op = "upload" /\ loc[p].pc = "Sleep") =>
                           loc[p].messageIDs # <<>>)
  /\ [][C20_Step]_vars

\* C20 witness: a Put is in the delay that follows its third upload, a
\* short last chunk.
C20_Witness ==
  \E p \in Procs :
    /\ loc[p].op = "upload" /\ loc[p].pc = "Sleep"
    /\ UploadedLens(p) = <<ChunkSize, ChunkSize, 1>>

\* The Put in slot p is about to call SaveFile with the name of a stored file.
SavesTakenName(p) ==
  /\ \/ loc[p].op = "upload" /\ loc[p].pc = "Finish" /\ loc[p].messageIDs # <<>>
     \/ loc[p].op = "botUpload" /\ loc[p].pc = "SaveFile"
  /\ \E f \in files : f.name = loc[p].filename

\* The step of a Put that calls SaveFile with a taken name ends the Put and
\* changes no row of files or chunks.
C21_Step ==
  \A p \in Procs :
    (SavesTakenName(p) /\ loc'[p] # loc[p]) =>
      /\ files' = files /\ chunks' = chunks
      /\ loc'[p].pc \in {"done", "killed"}
      /\ loc'[p].fileID = 0

\* C21: no two files of the store have the same name; a Put whose name is
\* that of a stored file, also one that runs concurrently with another Put
\* of that name, creates no file row and no chunk record and leaves the rows
\* of the stored file as they are.
C21_NamesUnique ==
  /\ [](\A f, g \in files : f.name = g.name => f = g)
  /\ [](\A p \in Procs : (loc[p].op \in Puts /\ loc[p].fileID = 0) =>
                           FilesOf(p) = {} /\ RecordsOf(p) = {})
  /\ [][C21_Step]_vars

\* C21 witness: two Puts of one name ran concurrently, slot 1 started first,
\* slot 2 saved its file first, and with no call failing slot 1 has ended
\* with its SaveFile refused, no row written, the file of slot 2 in place
\* with its chunk record.
C21_Witness ==
  /\ loc[1].op \in Puts /\ loc[1].pc = "done" /\ loc[1].dbErr = "SaveFile"
  /\ loc[1].messageIDs # <<>>
  /\ loc[2].op \in Puts /\ loc[2].pc = "done" /\ loc[2].filename = loc[1].filename
  /\ faultsLeft = MaxFaults
  /\ FilesOf(1) = {} /\ RecordsOf(1) = {}
  /\ \E f \in FilesOf(2) :
       /\ f.name = loc[1].filename
       /\ \E c \in RecordsOf(2) : c.file_id = f.id

\* The command Put in slot p has answered "Object secured".
Secured(p) == loc[p].op = "botUpload" /\ loc[p].reply = "Object secured"

\* The attachment of the command Put in slot p.
PayloadOf(p) == loc[p].request[1].data

\* A command Put that answers has made one upload, of a blob that decrypts
\* to all the bytes it read, and no chunk record points at its message but
\* one with partNum 1 for its file.
C22_OneUpload ==
  \A p \in Procs :
    /\ loc[p].op = "botUpload" =>
         RecordsOf(p) \subseteq {ChunkRecord(loc[p].fileID, m, 1) : m \in MessagesOf(p)}
    /\ Secured(p) =>
         /\ Cardinality(MessagesOf(p)) = 1
         /\ \A m \in MessagesOf(p) :
              /\ loc[p].messageIDs = <<m>>
              /\ DecryptOk(messages[m].blob, EncryptionKey)
              /\ Decrypt(messages[m].blob, EncryptionKey) = messages[m].plain
              /\ Len(messages[m].plain) = Len(PayloadOf(p)) =>
                   messages[m].plain = PayloadOf(p)

\* The step in which a command Put succeeds (its SaveChunk has not failed)
\* adds exactly one chunk record: partNum 1 of the new file, pointing at the
\* one message.
C22_Step ==
  \A p \in Procs :
    (~Secured(p) /\ Secured(p)' /\ loc'[p].dbErr = "") =>
      /\ chunks \subseteq chunks'
      /\ chunks' \ chunks = {ChunkRecord(loc'[p].fileID, loc'[p].messageIDs[1], 1)}
      /\ loc'[p].fileID # 0 /\ loc'[p].fileID = loc[p].fileID

\* C22: the command Put does not chunk: for a payload of any size, also one
\* longer than ChunkSize, a successful command Put makes exactly one backend
\* upload, of the whole encrypted payload, and creates exactly one chunk
\* record, with partNum 1, for the new file.
C22_CommandPutDoesNotChunk == []C22_OneUpload /\ [][C22_Step]_vars

\* C22 witness: a command Put of a payload of ChunkSize + 1 bytes has
\* succeeded with one message holding all of them and one chunk record.
C22_Witness ==
  \E p \in Procs :
    /\ Secured(p) /\ loc[p].dbErr = ""
    /\ Len(PayloadOf(p)) = ChunkSize + 1
    /\ \E m \in MessagesOf(p) :
         /\ messages[m].plain = PayloadOf(p)
         /\ RecordsOf(p) = {ChunkRecord(loc[p].fileID, m, 1)}
         /\ {c \in chunks : c.file_id = loc[p].fileID} = RecordsOf(p)

====
